---------------------------- MODULE Spec2Model ----------------------------
(***************************************************************************)
(* Ring-LWE public-key encryption over Z_q[X]/(X^N + 1).                   *)
(*                                                                         *)
(* A field instance (an implementation of the IntField trait together with *)
(* the ring degree N) is the record par = [Q, B, N].  Polynomials are the  *)
(* values of poly_ring_xnp1::Polynomial<I, N>: a sequence of at most N     *)
(* coefficients, lowest degree first, with trailing zeros trimmed.         *)
(***************************************************************************)
EXTENDS Integers, Sequences, FiniteSets, TLC

VARIABLES
    par,    \* the field instance: [Q |-> modulus, B |-> noise bound, N |-> degree]
    pc,     \* position of the caller
    ek,     \* EncryptKey {a, t}
    dk,     \* DecryptKey {s}
    msg,    \* the vector handed to encrypt / Message::new
    ct,     \* CipherText {u, v}
    out,    \* the vector returned by decrypt
    res,    \* the outcome of the last call that can fail
    message,\* the Message built by Message::new / Message::random
    wire,   \* a coefficient vector to deserialize, and what it was made from
    back,   \* the value a deserialization produced
    poly,   \* a polynomial under modulo_coefficients
    prev    \* poly before the last modulo_coefficients

vars == <<par, pc, ek, dk, msg, ct, out, res, message, wire, back, poly, prev>>

\* the variables the key/encrypt/decrypt calls never touch
others == <<message, wire, back, poly, prev>>

Q == par.Q
B == par.B
N == par.N

-----------------------------------------------------------------------------
(* Bounds of the model.                                                    *)

\* a sampling range of at most this many integers is enumerated in full
MaxFullRange == 5
\* number of points drawn from a sampling range that is larger
Draws == 1
\* largest entry of a vector handed to Message::new or encrypt
MaxVal == 2
\* how many entries past N (or 2N) an input vector may have
MaxExtra == 1
\* a received (not encrypted) payload has coefficients c * CoefStep with
\* c in -MaxCoef..MaxCoef
MaxCoef == 2
\* the parameter sweep of valid(): Q in 1..MaxQ, B in 1..MaxB, N in 1..MaxN
MaxQ == 48
MaxB == 2
MaxN == 3
\* the integers handed to modulo: -MaxX..MaxX
MaxX == 9

-----------------------------------------------------------------------------
(* Integer helpers.                                                        *)

Abs(x) == IF x < 0 THEN -x ELSE x

RECURSIVE SumTo(_, _)
SumTo(f, n) == IF n = 0 THEN 0 ELSE f[n] + SumTo(f, n - 1)

\* all vectors over S of length lo..hi
Vectors(S, lo, hi) == UNION {[1..n -> S] : n \in lo..hi}

-----------------------------------------------------------------------------
(* poly_ring_xnp1::Polynomial<I, N>                                        *)

RECURSIVE Trim(_)
Trim(c) ==
    IF c = <<>> THEN <<>>
    ELSE IF c[Len(c)] = 0 THEN Trim(SubSeq(c, 1, Len(c) - 1))
    ELSE c

Coef(p, i) == IF i <= Len(p) THEN p[i] ELSE 0

\* Polynomial::new: at most N coefficients, stored trimmed
PolyNew(coeffs) == Trim(coeffs)

\* Polynomial::from_coeffs on a vector of at most N coefficients
PolyFromCoeffs(coeffs) == Trim(coeffs)

\* Polynomial::from_coeffs on a longer vector, when it does not abort:
\* position i >= N folds onto i - N with its sign negated (X^N = -1)
PolyFold(coeffs) ==
    Trim([k \in 1..N |->
            SumTo([j \in 1..Len(coeffs) |->
                     IF (j - k) % N # 0 THEN 0
                     ELSE IF ((j - k) \div N) % 2 = 0 THEN coeffs[j]
                     ELSE -coeffs[j]],
                  Len(coeffs))])

PolyAdd(p, q) == Trim([k \in 1..N |-> Coef(p, k) + Coef(q, k)])

PolySub(p, q) == Trim([k \in 1..N |-> Coef(p, k) - Coef(q, k)])

\* product modulo X^N + 1
PolyMul(p, q) ==
    Trim([k \in 1..N |->
            SumTo([i \in 1..N |->
                     IF i <= k THEN Coef(p, i) * Coef(q, k - i + 1)
                     ELSE -(Coef(p, i) * Coef(q, k - i + 1 + N))],
                  N)])

\* Polynomial::coeffs_mut: the stored coefficients are replaced by cs, then
\* trimmed
CoeffsMut(p, cs) == Trim(cs)

\* Polynomial::iter().cloned().collect()
Coeffs(p) == p

\* the outcomes of Polynomial::from_coeffs: a vector longer than N is either
\* refused (the call aborts) or folded modulo X^N + 1
FromCoeffsOutcomes(coeffs) ==
    IF Len(coeffs) <= N THEN {[ok |-> TRUE, p |-> PolyFromCoeffs(coeffs)]}
    ELSE {[ok |-> FALSE, p |-> <<>>], [ok |-> TRUE, p |-> PolyFold(coeffs)]}

-----------------------------------------------------------------------------
(* intfield.rs                                                             *)

\* modulo with the truncating remainder (%) in place of rem_euclid
modulo_truncating(x) ==
    LET a == IF x < 0 THEN -((-x) % Q) ELSE x % Q
    IN  IF a > Q \div 2 THEN a - Q ELSE a

\* IntField::modulo, the reference implementation
modulo(x) ==
    LET a == x % Q
    IN  IF a > Q \div 2 THEN a - Q ELSE a

\* IntField::valid
valid ==
    LET four == 1 + 1 + 1 + 1
        two  == 1 + 1
        lhs  == two * B * B + B
        rhs  == Q \div four
    IN  lhs < rhs

-----------------------------------------------------------------------------
(* The random number generator.                                            *)

\* Rng::random_range(lo..=hi): any integer of the range; a range too large to
\* enumerate is represented by Draws of its points, the upper end among them
random_range(lo, hi) ==
    IF hi - lo + 1 <= MaxFullRange THEN lo..hi
    ELSE {hi - ((hi - lo) * k) \div (Draws + 1) : k \in 0..(Draws - 1)}

\* Rng::random_bool
random_bool == {TRUE, FALSE}

-----------------------------------------------------------------------------
(* polynomial.rs                                                           *)

rand_polynomial_within(lower, upper) ==
    {PolyNew(coeffs) : coeffs \in [1..N -> random_range(lower, upper)]}

rand_polynomial ==
    LET upper == Q \div (1 + 1)
        lower == -upper
    IN  rand_polynomial_within(lower, upper)

small_polynomial ==
    LET lower == -B
        upper == B
    IN  rand_polynomial_within(lower, upper)

closest_integer_div_two(x) == (x + 1) \div (1 + 1)

scale_coefficients(p) ==
    LET q_div_2 == closest_integer_div_two(Q)
    IN  CoeffsMut(p, [k \in 1..Len(p) |-> q_div_2 * p[k]])

\* round_coefficients with >= in place of >
round_coefficients_geq(p) ==
    LET two == 1 + 1
        q_div_4 == closest_integer_div_two(Q) \div two
    IN  CoeffsMut(p, [k \in 1..Len(p) |-> IF Abs(p[k]) >= q_div_4 THEN 1 ELSE 0])

round_coefficients(p) ==
    LET two == 1 + 1
        q_div_4 == closest_integer_div_two(Q) \div two
    IN  CoeffsMut(p, [k \in 1..Len(p) |-> IF Abs(p[k]) > q_div_4 THEN 1 ELSE 0])

modulo_coefficients(p) == CoeffsMut(p, [k \in 1..Len(p) |-> modulo(p[k])])

\* to_fixed_coeffs_vec without the padding
to_fixed_coeffs_vec_unpadded(p) == Coeffs(p)

to_fixed_coeffs_vec(p) ==
    LET p_vec == Coeffs(p)
    IN  IF Len(p_vec) < N
        THEN p_vec \o [k \in 1..(N - Len(p_vec)) |-> 0]
        ELSE p_vec

-----------------------------------------------------------------------------
(* lib.rs: key generation and its own samplers                             *)

lib_rand_polynomial_within(bound) ==
    LET lower == 0 - bound
        upper == bound + 1
    IN  {PolyNew(coeffs) : coeffs \in [1..N -> random_range(lower, upper - 1)]}

lib_rand_polynomial ==
    LET bound == Q - 1
    IN  lib_rand_polynomial_within(bound)

lib_small_polynomial == lib_rand_polynomial_within(1)

key_gen(a, s, e) ==
    LET a_s == modulo_coefficients(PolyMul(a, s))
        t   == modulo_coefficients(PolyAdd(a_s, e))
    IN  [ek |-> [a |-> a, t |-> t], dk |-> [s |-> s]]

-----------------------------------------------------------------------------
(* encrypt.rs                                                              *)

\* EncryptKey::encrypt once r, e2, e3 are drawn and from_coeffs returned tmp
encrypt(key, tmp, r, e2, e3) ==
    LET u == LET a_r == modulo_coefficients(PolyMul(key.a, r))
             IN  modulo_coefficients(PolyAdd(a_r, e2))
        q_div_2_m == scale_coefficients(tmp)
        v == LET t_r    == modulo_coefficients(PolyMul(key.t, r))
                 t_r_e3 == modulo_coefficients(PolyAdd(t_r, e3))
             IN  modulo_coefficients(PolyAdd(t_r_e3, q_div_2_m))
    IN  [u |-> u, v |-> v]

-----------------------------------------------------------------------------
(* decrypt.rs                                                              *)

\* decrypt_m with the product added instead of subtracted
decrypt_m_added(key, c) ==
    LET u_s == modulo_coefficients(PolyMul(c.u, key.s))
    IN  modulo_coefficients(PolyAdd(c.v, u_s))

\* the polynomial m = v - u * s of DecryptKey::decrypt, before rounding
decrypt_m(key, c) ==
    LET u_s == modulo_coefficients(PolyMul(c.u, key.s))
    IN  modulo_coefficients(PolySub(c.v, u_s))

decrypt(key, c) ==
    LET m  == decrypt_m(key, c)
        mb == round_coefficients(m)
    IN  to_fixed_coeffs_vec(mb)

-----------------------------------------------------------------------------
(* message.rs                                                              *)

\* Message::new without the length assertion
message_new_unbounded(data) ==
    IF \A k \in 1..Len(data) : data[k] = 0 \/ data[k] = 1
    THEN [ok |-> TRUE, data |-> data]
    ELSE [ok |-> FALSE, data |-> <<>>]

\* Message::new: both assertions pass, or the call aborts
message_new(data) ==
    IF /\ Len(data) <= N
       /\ \A k \in 1..Len(data) : data[k] = 0 \/ data[k] = 1
    THEN [ok |-> TRUE, data |-> data]
    ELSE [ok |-> FALSE, data |-> <<>>]

\* Message::from
message_from(value) == message_new(value)

\* Message::random with the coin flips flips[1..len]
message_random(len, flips) ==
    IF len <= N
    THEN [ok |-> TRUE, data |-> [k \in 1..len |-> IF flips[k] THEN 1 ELSE 0]]
    ELSE [ok |-> FALSE, data |-> <<>>]

message_len(m) == Len(m.data)

message_data(m) == m.data

-----------------------------------------------------------------------------
(* Serialize / Deserialize of EncryptKey, DecryptKey, CipherText           *)

Ok(kind, x, y) ==
    [ok |-> TRUE, value |-> [kind |-> kind, x |-> x, y |-> y],
     expected |-> 0, actual |-> 0]

\* "Invalid length of the vector: expected {}, got {}"
LengthError(expected, actual) ==
    [ok |-> FALSE, value |-> [kind |-> "none", x |-> <<>>, y |-> <<>>],
     expected |-> expected, actual |-> actual]

serialize_encrypt_key(key) ==
    LET a_vec == to_fixed_coeffs_vec(key.a)
        t_vec == to_fixed_coeffs_vec(key.t)
    IN  a_vec \o t_vec

deserialize_encrypt_key(vec) ==
    IF Len(vec) # 2 * N THEN LengthError(2 * N, Len(vec))
    ELSE Ok("ek", PolyNew(SubSeq(vec, 1, N)), PolyNew(SubSeq(vec, N + 1, Len(vec))))

serialize_decrypt_key(key) == to_fixed_coeffs_vec(key.s)

\* the DecryptKey length check accepting every vector of at most N entries
deserialize_decrypt_key_atmost(vec) ==
    IF Len(vec) > N THEN LengthError(N, Len(vec))
    ELSE Ok("dk", PolyNew(vec), <<>>)

deserialize_decrypt_key(vec) ==
    IF Len(vec) # N THEN LengthError(N, Len(vec))
    ELSE Ok("dk", PolyNew(vec), <<>>)

\* CipherText serialization without padding u and v to N entries
serialize_cipher_text_unpadded(c) == Coeffs(c.u) \o Coeffs(c.v)

serialize_cipher_text(c) ==
    LET u_vec == to_fixed_coeffs_vec(c.u)
        v_vec == to_fixed_coeffs_vec(c.v)
    IN  u_vec \o v_vec

deserialize_cipher_text(vec) ==
    IF Len(vec) # 2 * N THEN LengthError(2 * N, Len(vec))
    ELSE Ok("ct", PolyNew(SubSeq(vec, 1, N)), PolyNew(SubSeq(vec, N + 1, Len(vec))))

-----------------------------------------------------------------------------
(* Values of the variables before the call that sets them.                 *)

NoEk  == [a |-> <<>>, t |-> <<>>]
NoDk  == [s |-> <<>>]
NoCt  == [u |-> <<>>, v |-> <<>>]
NoRes == [op |-> "none", ok |-> TRUE, expected |-> 0, actual |-> 0]
NoMessage == [data |-> <<>>]
NoWire == [kind |-> "none", data |-> <<>>]
NoBack == [kind |-> "none", x |-> <<>>, y |-> <<>>]

Result(op, ok) == [op |-> op, ok |-> ok, expected |-> 0, actual |-> 0]

InitWith(params) ==
    /\ par \in params
    /\ pc = "start"
    /\ ek = NoEk
    /\ dk = NoDk
    /\ msg = <<>>
    /\ ct = NoCt
    /\ out = <<>>
    /\ res = NoRes
    /\ message = NoMessage
    /\ wire = NoWire
    /\ back = NoBack
    /\ poly = <<>>
    /\ prev = <<>>

-----------------------------------------------------------------------------
(* Key generation, encryption, decryption.                                 *)

\* field instances that satisfy the documented condition 2N * B^2 + B < Q/4
CryptParams ==
    { [Q |-> 17, B |-> 1, N |-> 1],
      [Q |-> 45, B |-> 2, N |-> 1],
      [Q |-> 25, B |-> 1, N |-> 2] }

\* field instances that pass IntField::valid
ValidOnlyParams ==
    { [Q |-> 17, B |-> 1, N |-> 1],
      [Q |-> 17, B |-> 1, N |-> 2] }

\* the bit vectors a Message holds
BitMessages == Vectors({0, 1}, 0, N)

\* payloads that did not come from encrypt
CoefStep == Q \div 4 + 1

ReceivedCoeffs == {c * CoefStep : c \in -MaxCoef..MaxCoef}

ReceivedPolys == {PolyNew(c) : c \in [1..N -> ReceivedCoeffs]}

KeyGen ==
    /\ pc = "start"
    /\ \E a \in lib_rand_polynomial, s \in lib_small_polynomial,
          e \in lib_small_polynomial :
          LET k == key_gen(a, s, e)
          IN  /\ ek' = k.ek
              /\ dk' = k.dk
    /\ pc' = "keyed"
    /\ UNCHANGED <<par, msg, ct, out, res, others>>

\* ek.encrypt(rng, m)
EncryptWith(m) ==
    \E r \in small_polynomial, e2 \in small_polynomial,
       e3 \in small_polynomial, tmp \in FromCoeffsOutcomes(m) :
        /\ msg' = m
        /\ IF tmp.ok
           THEN /\ ct' = encrypt(ek, tmp.p, r, e2, e3)
                /\ pc' = "encrypted"
                /\ res' = Result("encrypt", TRUE)
           ELSE /\ ct' = ct
                /\ pc' = "aborted"
                /\ res' = Result("encrypt", FALSE)
        /\ UNCHANGED <<par, ek, dk, out, others>>

Encrypt ==
    /\ pc = "keyed"
    /\ \E m \in BitMessages : EncryptWith(m)

\* a ciphertext arrives from elsewhere
ReceiveCipherText ==
    /\ pc = "keyed"
    /\ \E u \in ReceivedPolys, v \in ReceivedPolys :
          ct' = [u |-> u, v |-> v]
    /\ pc' = "encrypted"
    /\ res' = Result("receive", TRUE)
    /\ UNCHANGED <<par, ek, dk, msg, out, others>>

\* dk.decrypt(c): the ciphertext is taken by value
Decrypt ==
    /\ pc = "encrypted"
    /\ out' = decrypt(dk, ct)
    /\ ct' = NoCt
    /\ pc' = "decrypted"
    /\ UNCHANGED <<par, ek, dk, msg, res, others>>

Init == InitWith(CryptParams)

Next == KeyGen \/ Encrypt \/ ReceiveCipherText \/ Decrypt

Spec == Init /\ [][Next]_vars

\* the same run on the instances that only pass IntField::valid
InitValidOnly == InitWith(ValidOnlyParams)

SpecValidOnly == InitValidOnly /\ [][Next]_vars

-----------------------------------------------------------------------------
(* Properties of key generation, encryption and decryption.                *)

\* m followed by zeros up to length N
Padded(m) == m \o [k \in 1..(N - Len(m)) |-> 0]

\* the ciphertext at hand was produced by encrypt
Encrypted == res.op = "encrypt" /\ res.ok

\* the documented correctness condition, 2N * B^2 + B < Q/4
NoiseBound == 2 * N * B * B + B

WithinNoiseBudget == Q % 2 = 1 /\ B >= 1 /\ NoiseBound < Q \div 4

\* -Q/2 < c <= Q/2
Centred(c) == -Q < 2 * c /\ 2 * c <= Q

AllCentred(p) == \A k \in 1..Len(p) : Centred(p[k])

\* C1: whenever IntField::valid() holds, decrypting an encryption of a bit
\* vector m of length L <= N returns m in its first L entries and zeros in
\* the entries L..N.
C1_RoundTripUnderValid ==
    (valid /\ pc = "decrypted" /\ Encrypted) => out = Padded(msg)

\* C2: for odd Q, B >= 1 and 2N * B^2 + B < floor(Q/4), the polynomial
\* m' = mod_coeffs(v - mod_coeffs(u * s)) of decrypt differs from
\* ceil(Q/2) * m by at most 2N * B^2 + B in every coefficient (modulo Q), and
\* decrypt returns the bits of m followed by zeros.
C2_NoiseBudget ==
    (WithinNoiseBudget /\ Encrypted) =>
        /\ pc = "encrypted" =>
              \A k \in 1..N :
                 Abs(modulo(Coef(decrypt_m(dk, ct), k)
                            - closest_integer_div_two(Q) * Coef(msg, k)))
                    <= NoiseBound
        /\ pc = "decrypted" => out = Padded(msg)

\* a two-bit message with its high bit set came back from decrypt
C2_Witness ==
    /\ WithinNoiseBudget /\ Encrypted
    /\ pc = "decrypted"
    /\ N = 2
    /\ msg = <<0, 1>>
    /\ out = <<0, 1>>

\* C4: decrypt is total: for every key and every ciphertext of at most N
\* coefficients, encrypted or not, trimmed or not, it returns a vector of
\* length exactly N whose entries are all 0 or 1.
C4_DecryptTotal ==
    pc = "decrypted" =>
        /\ Len(out) = N
        /\ \A k \in 1..Len(out) : out[k] \in {0, 1}

\* decrypt returned for a received ciphertext whose rounding was trimmed
C4_Witness ==
    /\ pc = "decrypted"
    /\ res.op = "receive"
    /\ N = 2
    /\ out = <<1, 0>>

\* C7: after key_gen and after every encrypt, every coefficient c of a, t,
\* u and v satisfies -Q/2 < c <= Q/2.
C7_CentredPublished ==
    /\ pc # "start" => AllCentred(ek.a) /\ AllCentred(ek.t)
    /\ (pc = "encrypted" /\ Encrypted) => AllCentred(ct.u) /\ AllCentred(ct.v)

-----------------------------------------------------------------------------
(* Callers that hand encrypt a vector of their own.                        *)

RawParams == { [Q |-> 7, B |-> 1, N |-> 1] }

\* the vectors a caller can build
RawVectors == Vectors(0..MaxVal, 0, N + MaxExtra)

EncryptVec ==
    /\ pc = "keyed"
    /\ \E m \in RawVectors : EncryptWith(m)

InitRaw == InitWith(RawParams)

NextRaw == KeyGen \/ EncryptVec

SpecRaw == InitRaw /\ [][NextRaw]_vars

IsBitMessage(m) == Len(m) <= N /\ \A k \in 1..Len(m) : m[k] \in {0, 1}

\* C5: a vector that holds a value other than 0 or 1, or is longer than N,
\* is rejected at Message construction or in encrypt: encrypt never returns
\* a ciphertext for it.
C5_InvalidRejected ==
    (pc = "encrypted" /\ Encrypted) => IsBitMessage(msg)

-----------------------------------------------------------------------------
(* Message                                                                 *)

MsgParams == { [Q |-> 7, B |-> 1, N |-> n] : n \in 1..MaxN }

MessageNew ==
    /\ pc = "start"
    /\ \E data \in RawVectors :
          LET r == message_new(data)
          IN  /\ msg' = data
              /\ message' = [data |-> r.data]
              /\ res' = Result("new", r.ok)
              /\ pc' = IF r.ok THEN "message" ELSE "aborted"
    /\ UNCHANGED <<par, ek, dk, ct, out, wire, back, poly, prev>>

MessageFrom ==
    /\ pc = "start"
    /\ \E value \in RawVectors :
          LET r == message_from(value)
          IN  /\ msg' = value
              /\ message' = [data |-> r.data]
              /\ res' = Result("from", r.ok)
              /\ pc' = IF r.ok THEN "message" ELSE "aborted"
    /\ UNCHANGED <<par, ek, dk, ct, out, wire, back, poly, prev>>

MessageRandom ==
    /\ pc = "start"
    /\ \E len \in 0..(N + MaxExtra) :
          \E flips \in [1..(IF len <= N THEN len ELSE 0) -> random_bool] :
             LET r == message_random(len, flips)
             IN  /\ message' = [data |-> r.data]
                 /\ res' = [Result("random", r.ok) EXCEPT !.expected = len]
                 /\ pc' = IF r.ok THEN "message" ELSE "aborted"
    /\ UNCHANGED <<par, ek, dk, msg, ct, out, wire, back, poly, prev>>

MessageLen ==
    /\ pc = "message"
    /\ res' = [res EXCEPT !.actual = message_len(message)]
    /\ pc' = "measured"
    /\ UNCHANGED <<par, ek, dk, msg, ct, out, message, wire, back, poly, prev>>

\* Message::data consumes the message
MessageData ==
    /\ pc \in {"message", "measured"}
    /\ out' = message_data(message)
    /\ message' = NoMessage
    /\ pc' = "unwrapped"
    /\ UNCHANGED <<par, ek, dk, msg, ct, res, wire, back, poly, prev>>

InitMsg == InitWith(MsgParams)

NextMsg == MessageNew \/ MessageFrom \/ MessageRandom \/ MessageLen \/ MessageData

SpecMsg == InitMsg /\ [][NextMsg]_vars

\* C6: Message::new / Message::from succeed exactly when the vector has at
\* most N entries, all 0 or 1, and then data, len() and data() are those of
\* the input; otherwise construction fails.  Message::random(len) with
\* len <= N yields exactly len entries, all 0 or 1, and fails when len > N.
C6_MessageValidated ==
    /\ res.op \in {"new", "from"} =>
          /\ res.ok <=> IsBitMessage(msg)
          /\ res.ok <=> pc # "aborted"
          /\ pc = "message" => message.data = msg
          /\ pc = "measured" => res.actual = Len(msg)
          /\ pc = "unwrapped" => out = msg
    /\ res.op = "random" =>
          /\ res.ok <=> res.expected <= N
          /\ res.ok <=> pc # "aborted"
          /\ pc = "message" =>
                /\ Len(message.data) = res.expected
                /\ \A k \in 1..Len(message.data) : message.data[k] \in {0, 1}

\* a full-length message was built, measured and unwrapped
C6_Witness ==
    /\ pc = "unwrapped"
    /\ res.op = "new"
    /\ N = 3
    /\ res.actual = 3
    /\ out = <<1, 0, 1>>

-----------------------------------------------------------------------------
(* Serialization                                                           *)

SerdeParams == { [Q |-> 7, B |-> 1, N |-> 1], [Q |-> 7, B |-> 1, N |-> 2] }

\* the coefficient vectors that can arrive
ReceivedVectors == Vectors(ReceivedCoeffs, 0, 2 * N + MaxExtra)

SerializeEncryptKey ==
    /\ pc = "start"
    /\ \E a \in ReceivedPolys, t \in ReceivedPolys :
          LET key == [a |-> a, t |-> t]
          IN  /\ ek' = key
              /\ wire' = [kind |-> "ek", data |-> serialize_encrypt_key(key)]
    /\ pc' = "wired"
    /\ UNCHANGED <<par, dk, msg, ct, out, res, message, back, poly, prev>>

SerializeDecryptKey ==
    /\ pc = "start"
    /\ \E s \in ReceivedPolys :
          LET key == [s |-> s]
          IN  /\ dk' = key
              /\ wire' = [kind |-> "dk", data |-> serialize_decrypt_key(key)]
    /\ pc' = "wired"
    /\ UNCHANGED <<par, ek, msg, ct, out, res, message, back, poly, prev>>

SerializeCipherText ==
    /\ pc = "start"
    /\ \E u \in ReceivedPolys, v \in ReceivedPolys :
          LET c == [u |-> u, v |-> v]
          IN  /\ ct' = c
              /\ wire' = [kind |-> "ct", data |-> serialize_cipher_text(c)]
    /\ pc' = "wired"
    /\ UNCHANGED <<par, ek, dk, msg, out, res, message, back, poly, prev>>

\* a payload arrives that this library did not serialize
ReceiveVector ==
    /\ pc = "start"
    /\ \E vec \in ReceivedVectors : wire' = [kind |-> "raw", data |-> vec]
    /\ pc' = "wired"
    /\ UNCHANGED <<par, ek, dk, msg, ct, out, res, message, back, poly, prev>>

Deserialized(op, r) ==
    /\ back' = r.value
    /\ res' = [op |-> op, ok |-> r.ok, expected |-> r.expected, actual |-> r.actual]
    /\ pc' = "done"
    /\ UNCHANGED <<par, ek, dk, msg, ct, out, message, wire, poly, prev>>

DeserializeEncryptKey ==
    /\ pc = "wired"
    /\ Deserialized("de_ek", deserialize_encrypt_key(wire.data))

DeserializeDecryptKey ==
    /\ pc = "wired"
    /\ Deserialized("de_dk", deserialize_decrypt_key(wire.data))

DeserializeCipherText ==
    /\ pc = "wired"
    /\ Deserialized("de_ct", deserialize_cipher_text(wire.data))

InitSerde == InitWith(SerdeParams)

NextSerde ==
    \/ SerializeEncryptKey \/ SerializeDecryptKey \/ SerializeCipherText
    \/ ReceiveVector
    \/ DeserializeEncryptKey \/ DeserializeDecryptKey \/ DeserializeCipherText

SpecSerde == InitSerde /\ [][NextSerde]_vars

\* the length a deserializer requires
ExpectedLen(op) == IF op = "de_dk" THEN N ELSE 2 * N

\* C9: deserializing an EncryptKey or a CipherText succeeds exactly when the
\* vector has 2N entries (the first N become a/u, the last N become t/v), a
\* DecryptKey exactly when it has N entries; every other length gives an
\* error carrying the expected and the actual length, and no value.
C9_LengthChecked ==
    pc = "done" =>
        /\ res.ok <=> Len(wire.data) = ExpectedLen(res.op)
        /\ res.ok =>
              /\ \A k \in 1..N : Coef(back.x, k) = wire.data[k]
              /\ res.op # "de_dk" =>
                    \A k \in 1..N : Coef(back.y, k) = wire.data[N + k]
              /\ Len(back.x) <= N /\ Len(back.y) <= N
        /\ ~res.ok =>
              /\ res.expected = ExpectedLen(res.op)
              /\ res.actual = Len(wire.data)
              /\ back = NoBack

\* a decryption-key payload of N - 1 entries was refused
C9_Witness ==
    /\ pc = "done"
    /\ res.op = "de_dk"
    /\ N = 2
    /\ Len(wire.data) = N - 1
    /\ ~res.ok
    /\ res.expected = N
    /\ res.actual = N - 1

\* C10: serializing an EncryptKey or CipherText emits exactly 2N
\* coefficients, a DecryptKey exactly N, also when trailing zeros of its
\* polynomials were trimmed; deserializing the result succeeds and gives
\* back the value that was serialized.
C10_SerdeRoundTrip ==
    /\ wire.kind = "ek" =>
          /\ Len(wire.data) = 2 * N
          /\ (pc = "done" /\ res.op = "de_ek") =>
                res.ok /\ back = [kind |-> "ek", x |-> ek.a, y |-> ek.t]
    /\ wire.kind = "dk" =>
          /\ Len(wire.data) = N
          /\ (pc = "done" /\ res.op = "de_dk") =>
                res.ok /\ back = [kind |-> "dk", x |-> dk.s, y |-> <<>>]
    /\ wire.kind = "ct" =>
          /\ Len(wire.data) = 2 * N
          /\ (pc = "done" /\ res.op = "de_ct") =>
                res.ok /\ back = [kind |-> "ct", x |-> ct.u, y |-> ct.v]

\* a ciphertext whose u was trimmed to one coefficient and whose v is zero
\* came back from its serialized form
C10_Witness ==
    /\ pc = "done"
    /\ res.op = "de_ct"
    /\ wire.kind = "ct"
    /\ N = 2
    /\ Len(ct.u) = 1
    /\ ct.v = <<>>
    /\ back = [kind |-> "ct", x |-> ct.u, y |-> ct.v]

-----------------------------------------------------------------------------
(* IntField::valid over a sweep of field instances                         *)

SweepParams == [Q : 1..MaxQ, B : 1..MaxB, N : 1..MaxN]

CheckValid ==
    /\ pc = "start"
    /\ res' = Result("valid", valid)
    /\ pc' = "checked"
    /\ UNCHANGED <<par, ek, dk, msg, ct, out, message, wire, back, poly, prev>>

InitSweep == InitWith(SweepParams)

NextSweep == CheckValid

SpecSweep == InitSweep /\ [][NextSweep]_vars

\* C3: valid() returns true exactly when 2 * N * B^2 + B < Q/4 (integer
\* division), N being the ring degree.
C3_ValidIsNoiseBound ==
    pc = "checked" => (res.ok <=> 2 * N * B * B + B < Q \div 4)

-----------------------------------------------------------------------------
(* modulo_coefficients                                                     *)

\* the polynomial of test_modulo_coefficients
TestCoeffs == <<-9, -6, 0, 6>>

ModParams ==
    { [Q |-> q, B |-> 1, N |-> 2] : q \in 1..MaxQ } \cup { [Q |-> 7, B |-> 1, N |-> 4] }

ModInputs ==
    IF N = 4 THEN {PolyNew(TestCoeffs)}
    ELSE {PolyNew(c) : c \in [1..N -> -MaxX..MaxX]}

ModCoeffs ==
    /\ pc \in {"start", "reduced"}
    /\ prev' = poly
    /\ poly' = modulo_coefficients(poly)
    /\ pc' = IF pc = "start" THEN "reduced" ELSE "again"
    /\ UNCHANGED <<par, ek, dk, msg, ct, out, res, message, wire, back>>

InitMod ==
    /\ par \in ModParams
    /\ pc = "start"
    /\ ek = NoEk
    /\ dk = NoDk
    /\ msg = <<>>
    /\ ct = NoCt
    /\ out = <<>>
    /\ res = NoRes
    /\ message = NoMessage
    /\ wire = NoWire
    /\ back = NoBack
    /\ poly \in ModInputs
    /\ prev = <<>>

NextMod == ModCoeffs

SpecMod == InitMod /\ [][NextMod]_vars

\* C8: the centred modulo maps every integer x to the unique r with
\* r = x (mod Q) and -Q/2 < r <= Q/2; mod_coeffs is idempotent; and for
\* Q = 7, mod_coeffs([-9, -6, 0, 6]) = [-2, 1, 0, -1].
C8_CentredModulo ==
    /\ pc = "reduced" =>
          \A k \in 1..N :
             LET x == Coef(prev, k)
                 r == Coef(poly, k)
             IN  /\ (r - x) % Q = 0
                 /\ -Q < 2 * r /\ 2 * r <= Q
                 /\ \A y \in -Q..Q :
                       ((y - x) % Q = 0 /\ -Q < 2 * y /\ 2 * y <= Q) => y = r
    /\ pc = "again" => poly = prev
    /\ (pc = "reduced" /\ Q = 7 /\ prev = TestCoeffs) => poly = <<-2, 1, 0, -1>>

\* the test polynomial was reduced, and reduced again
C8_Witness ==
    /\ pc = "again"
    /\ Q = 7
    /\ N = 4
    /\ poly = <<-2, 1, 0, -1>>

-----------------------------------------------------------------------------
(* I = i32: the field instance ZqI32 of lib.rs (Q = 8383489, N = 512)      *)

\* i32::MAX and i32::MIN
IMax == 2147483647

IMin == -IMax - 1

\* x + y in i32: val is the two's complement result and carry the number of
\* times 2^32 was lost (1, 0 or -1); carry # 0 is the overflow on which a
\* build with overflow checks panics
add_i32(x, y) ==
    IF y > 0 /\ x > IMax - y
    THEN [val |-> (x - IMax - 1) + (y - IMax - 1), carry |-> 1]
    ELSE IF y < 0 /\ x < IMin - y
    THEN [val |-> (x - IMin) + (y - IMin), carry |-> -1]
    ELSE [val |-> x + y, carry |-> 0]

\* the sum of two partial sums, carries kept
WideAdd(u, v) ==
    LET r == add_i32(u.val, v.val)
    IN  [val |-> r.val, carry |-> u.carry + v.carry + r.carry]

\* the sum of f[lo..hi]; its val does not depend on the order of the
\* additions, and its carry is zero exactly when the exact sum is an i32
RECURSIVE WideSum(_, _, _)
WideSum(f, lo, hi) ==
    IF lo = hi THEN f[lo]
    ELSE LET mid == (lo + hi) \div 2
         IN  WideAdd(WideSum(f, lo, mid), WideSum(f, mid + 1, hi))

\* p * q modulo X^N + 1 over i32 (no instance below has a single product
\* of two coefficients outside i32)
PolyMulI32(p, q) ==
    LET w == [k \in 1..N |->
                WideSum([i \in 1..N |->
                           [val |-> IF i <= k
                                    THEN Coef(p, i) * Coef(q, k - i + 1)
                                    ELSE -(Coef(p, i) * Coef(q, k - i + 1 + N)),
                            carry |-> 0]],
                        1, N)]
    IN  [p |-> Trim([k \in 1..N |-> w[k].val]),
         overflow |-> \E k \in 1..N : w[k].carry # 0]

PolyAddI32(p, q) ==
    LET w == [k \in 1..N |-> add_i32(Coef(p, k), Coef(q, k))]
    IN  [p |-> Trim([k \in 1..N |-> w[k].val]),
         overflow |-> \E k \in 1..N : w[k].carry # 0]

PolySubI32(p, q) ==
    LET w == [k \in 1..N |-> add_i32(Coef(p, k), -Coef(q, k))]
    IN  [p |-> Trim([k \in 1..N |-> w[k].val]),
         overflow |-> \E k \in 1..N : w[k].carry # 0]

\* key_gen::<ZqI32, N>
key_gen_i32(a, s, e) ==
    LET a_s_raw == PolyMulI32(a, s)
        a_s     == modulo_coefficients(a_s_raw.p)
        t_raw   == PolyAddI32(a_s, e)
        t       == modulo_coefficients(t_raw.p)
    IN  [ek |-> [a |-> a, t |-> t], dk |-> [s |-> s],
         overflow |-> a_s_raw.overflow \/ t_raw.overflow]

\* EncryptKey::encrypt over i32
encrypt_i32(key, tmp, r, e2, e3) ==
    LET a_r_raw    == PolyMulI32(key.a, r)
        a_r        == modulo_coefficients(a_r_raw.p)
        u_raw      == PolyAddI32(a_r, e2)
        u          == modulo_coefficients(u_raw.p)
        q_div_2_m  == scale_coefficients(tmp)
        t_r_raw    == PolyMulI32(key.t, r)
        t_r        == modulo_coefficients(t_r_raw.p)
        t_r_e3_raw == PolyAddI32(t_r, e3)
        t_r_e3     == modulo_coefficients(t_r_e3_raw.p)
        v_raw      == PolyAddI32(t_r_e3, q_div_2_m)
        v          == modulo_coefficients(v_raw.p)
    IN  [ct |-> [u |-> u, v |-> v],
         overflow |-> \/ a_r_raw.overflow \/ u_raw.overflow
                      \/ t_r_raw.overflow \/ t_r_e3_raw.overflow
                      \/ v_raw.overflow]

\* DecryptKey::decrypt over i32
decrypt_i32(key, c) ==
    LET u_s_raw == PolyMulI32(c.u, key.s)
        u_s     == modulo_coefficients(u_s_raw.p)
        m_raw   == PolySubI32(c.v, u_s)
        m       == modulo_coefficients(m_raw.p)
        mb      == round_coefficients(m)
    IN  [out |-> to_fixed_coeffs_vec(mb),
         overflow |-> u_s_raw.overflow \/ m_raw.overflow]

\* ZqI32 with N = 512 as in test_encrypt_decrypt, with the noise bound of the
\* test (1) and of the larger preset (16), and a degree small enough to draw
\* every polynomial
I32Params ==
    { [Q |-> 8383489, B |-> 1, N |-> 512],
      [Q |-> 8383489, B |-> 16, N |-> 512],
      [Q |-> 8383489, B |-> 1, N |-> 1] }

\* the polynomials drawn from the sampler S of upper end hi: all of them, or,
\* for a degree too large for that, the one with every coefficient at hi
DrawnI32(S, hi) ==
    IF N > MaxN THEN {PolyNew([k \in 1..N |-> hi])} ELSE S

\* the messages encrypted: every bit vector, or the one of
\* test_encrypt_decrypt
MessagesI32 ==
    IF N > MaxN THEN {<<1, 0, 0, 1>>} ELSE BitMessages

\* In the three actions below res.ok says that no coefficient left i32.  On
\* an overflow the call panics (overflow checks on) or goes on with the
\* two's complement values (overflow checks off).

KeyGenI32 ==
    /\ pc = "start"
    /\ \E a \in DrawnI32(lib_rand_polynomial, Q - 1),
          s \in DrawnI32(lib_small_polynomial, 1),
          e \in DrawnI32(lib_small_polynomial, 1) :
          LET k == key_gen_i32(a, s, e)
          IN  \/ /\ ek' = k.ek
                 /\ dk' = k.dk
                 /\ pc' = "keyed"
                 /\ res' = Result("key_gen", ~k.overflow)
              \/ /\ k.overflow
                 /\ ek' = ek
                 /\ dk' = dk
                 /\ pc' = "aborted"
                 /\ res' = Result("key_gen", FALSE)
    /\ UNCHANGED <<par, msg, ct, out, others>>

EncryptI32 ==
    /\ pc = "keyed"
    /\ \E m \in MessagesI32,
          r \in DrawnI32(small_polynomial, B),
          e2 \in DrawnI32(small_polynomial, B),
          e3 \in DrawnI32(small_polynomial, B) :
          LET c == encrypt_i32(ek, PolyFromCoeffs(m), r, e2, e3)
          IN  /\ msg' = m
              /\ \/ /\ ct' = c.ct
                    /\ pc' = "encrypted"
                    /\ res' = Result("encrypt", ~c.overflow)
                 \/ /\ c.overflow
                    /\ ct' = ct
                    /\ pc' = "aborted"
                    /\ res' = Result("encrypt", FALSE)
    /\ UNCHANGED <<par, ek, dk, out, others>>

DecryptI32 ==
    /\ pc = "encrypted"
    /\ LET d == decrypt_i32(dk, ct)
       IN  /\ ct' = NoCt
           /\ \/ /\ out' = d.out
                 /\ pc' = "decrypted"
                 /\ res' = Result("decrypt", ~d.overflow)
              \/ /\ d.overflow
                 /\ out' = out
                 /\ pc' = "aborted"
                 /\ res' = Result("decrypt", FALSE)
    /\ UNCHANGED <<par, ek, dk, msg, others>>

InitI32 == InitWith(I32Params)

NextI32 == KeyGenI32 \/ EncryptI32 \/ DecryptI32

SpecI32 == InitI32 /\ [][NextI32]_vars

\* C11: with I = i32 and parameters within the noise budget, among them
\* Q = 8383489, N = 512 (B = 1 or 16), no coefficient computed in key_gen,
\* encrypt or decrypt, the unreduced products and sums included, leaves
\* [-2^31, 2^31 - 1], whatever polynomials are sampled.
C11_NoOverflowI32 ==
    (WithinNoiseBudget /\ res.op \in {"key_gen", "encrypt", "decrypt"}) => res.ok

-----------------------------------------------------------------------------
(* The samplers of polynomial.rs and of lib.rs                             *)

SampleParams == [Q : {3, 5, 17}, B : 1..MaxB, N : 1..2]

\* the polynomial p came out of sampler op called with the range lo..hi
Sampled(op, lo, hi, p) ==
    /\ poly' = p
    /\ res' = [op |-> op, ok |-> TRUE, expected |-> lo, actual |-> hi]
    /\ pc' = "sampled"
    /\ UNCHANGED <<par, ek, dk, msg, ct, out, message, wire, back, prev>>

\* polynomial.rs: rand_polynomial_within(rng, lower, upper)
SampleWithin ==
    /\ pc = "start"
    /\ \E lower \in -MaxB..MaxB, upper \in -MaxB..MaxB :
          /\ lower <= upper
          /\ \E p \in rand_polynomial_within(lower, upper) :
                Sampled("within", lower, upper, p)

\* polynomial.rs: small_polynomial(rng)
SampleSmall ==
    /\ pc = "start"
    /\ \E p \in small_polynomial : Sampled("small", -B, B, p)

\* polynomial.rs: rand_polynomial(rng)
SampleLarge ==
    /\ pc = "start"
    /\ \E p \in rand_polynomial : Sampled("large", -(Q \div 2), Q \div 2, p)

\* lib.rs: small_polynomial(rng)
LibSampleSmall ==
    /\ pc = "start"
    /\ \E p \in lib_small_polynomial : Sampled("small", -1, 1, p)

\* lib.rs: rand_polynomial(rng)
LibSampleLarge ==
    /\ pc = "start"
    /\ \E p \in lib_rand_polynomial : Sampled("large", -(Q - 1), Q - 1, p)

InitSample == InitWith(SampleParams)

NextSample ==
    \/ SampleWithin \/ SampleSmall \/ SampleLarge
    \/ LibSampleSmall \/ LibSampleLarge
    \/ KeyGen

SpecSample == InitSample /\ [][NextSample]_vars

\* p holds at most N coefficients, each in lo..hi
Within(p, lo, hi) ==
    /\ Len(p) <= N
    /\ \A k \in 1..N : lo <= Coef(p, k) /\ Coef(p, k) <= hi

\* C12: rand_polynomial_within(lo, hi) returns N coefficients, each in
\* [lo, hi]; every small polynomial has its coefficients in [-B, B], and so
\* has the decryption key s of key_gen; the large sampler yields
\* coefficients in [-floor(Q/2), floor(Q/2)].
C12_SamplingBounds ==
    /\ (pc = "sampled" /\ res.op = "within") => Within(poly, res.expected, res.actual)
    /\ (pc = "sampled" /\ res.op = "small") => Within(poly, -B, B)
    /\ (pc = "sampled" /\ res.op = "large") => Within(poly, -(Q \div 2), Q \div 2)
    /\ pc = "keyed" => Within(dk.s, -B, B)

-----------------------------------------------------------------------------
(* round_coefficients                                                      *)

RoundParams == { [Q |-> q, B |-> 1, N |-> 2] : q \in 1..MaxQ }

\* the polynomials handed to round_coefficients: coefficients in -Q..Q
RoundInputs == {PolyNew(c) : c \in [1..N -> -Q..Q]}

\* the inputs and results of test_closest_integer_div_two
DivTwoTests == (1 :> 1) @@ (2 :> 1) @@ (3 :> 2) @@ (5 :> 3) @@ (7 :> 4) @@ (13 :> 7)

\* round_coefficients(p); res.expected keeps its closest_integer_div_two(Q)
RoundCoeffs ==
    /\ pc = "start"
    /\ prev' = poly
    /\ poly' = round_coefficients(poly)
    /\ res' = [op |-> "round", ok |-> TRUE,
               expected |-> closest_integer_div_two(Q), actual |-> 0]
    /\ pc' = "rounded"
    /\ UNCHANGED <<par, ek, dk, msg, ct, out, message, wire, back>>

InitRound ==
    /\ par \in RoundParams
    /\ pc = "start"
    /\ ek = NoEk
    /\ dk = NoDk
    /\ msg = <<>>
    /\ ct = NoCt
    /\ out = <<>>
    /\ res = NoRes
    /\ message = NoMessage
    /\ wire = NoWire
    /\ back = NoBack
    /\ poly \in RoundInputs
    /\ prev = <<>>

NextRound == RoundCoeffs

SpecRound == InitRound /\ [][NextRound]_vars

\* C13: for every Q and every coefficient c, round_coefficients replaces c
\* by 1 if and only if |c| > floor(ceil(Q/2) / 2) and by 0 otherwise, where
\* ceil(Q/2) is closest_integer_div_two(Q), which returns 1, 1, 2, 3, 4, 7
\* for 1, 2, 3, 5, 7, 13; the output has only 0/1 coefficients.
C13_RoundingThreshold ==
    pc = "rounded" =>
        LET half == res.expected
        IN  /\ 2 * half >= Q /\ 2 * (half - 1) < Q
            /\ Q \in DOMAIN DivTwoTests => half = DivTwoTests[Q]
            /\ Len(poly) <= N
            /\ \E t \in 0..Q :
                  /\ 2 * t <= half /\ half < 2 * t + 2
                  /\ \A k \in 1..N :
                        /\ Coef(poly, k) \in {0, 1}
                        /\ Coef(poly, k) = 1 <=> Abs(Coef(prev, k)) > t

\* for Q = 13 the threshold is 3: 3 was rounded to 0 and -4 to 1
C13_Witness ==
    /\ pc = "rounded"
    /\ Q = 13
    /\ res.expected = 7
    /\ prev = <<3, -4>>
    /\ poly = <<0, 1>>

\* C14: for every odd Q and every coefficient c with -Q/2 < c <= Q/2,
\* round_coefficients gives 1 exactly when |c| is strictly closer to Q/2
\* than to 0 (4 * |c| > Q), and 0 exactly when |c| is closer to 0.
C14_CloserToHalf ==
    (pc = "rounded" /\ Q % 2 = 1) =>
        \A k \in 1..N :
           Centred(Coef(prev, k)) =>
              /\ Coef(poly, k) = 1 <=> 4 * Abs(Coef(prev, k)) > Q
              /\ Coef(poly, k) = 0 <=> 4 * Abs(Coef(prev, k)) < Q

=============================================================================
